---- MODULE Spec2Model ----
(***************************************************************************)
(* State-machine model of src/scripts/main.js: the GSAP loader             *)
(* (waitForGSAP / initCSS3Fallbacks), the AnimationController singleton    *)
(* (init, the full and the reduced choreography, hover bindings, header    *)
(* scroll effect, philosophy section, refresh, cleanup) and the window     *)
(* listeners (resize debounce, beforeunload, astro:page-load).             *)
(*                                                                         *)
(* The animation engine is the environment.  A tween is a record with the  *)
(* element it animates, the properties it still owns and a life-cycle      *)
(* state: "created" (instantiated with overwrite:"auto", first render      *)
(* pending), "active", "completed", "killed".  overwrite:"auto" is         *)
(* resolved at the first render: the rendering tween takes the properties  *)
(* it shares with the other live tweens of the same element away from      *)
(* them, and a tween left without properties is killed.  A scroll trigger  *)
(* with once:true fires the first time the scroll offset reaches its       *)
(* start (element top minus a percentage of the viewport height); the      *)
(* armed triggers are visited in creation order.  Timers run no earlier    *)
(* than their delay.                                                       *)
(***************************************************************************)
EXTENDS Integers, Sequences, FiniteSets, TLC

\* ---- program constants ----
maxAttempts == 50
PollDelay == 100
ResizeDelay == 250
PageLoadDelay == 100
HeaderThreshold == 50

\* ---- bounds of the model ----
MaxPageLoadTimers == 1

\* ---- the page ----
Cards == {"cardA", "cardB"}
PhilItems == {"philItem0", "philItem1"}
\* every element a selector of the script can match, in document order
AllEls ==
  << "header", "heroTitle", "heroSubtitle", "heroDivider", "heroBtn", "btnIcon",
     "heroFloat", "sectionTitle", "textLarge", "sectionDivider", "sectionFloat",
     "mission", "cardA", "cardB", "philSection", "philLine", "philItem0",
     "philItem1", "anchor" >>
Elements == {AllEls[i] : i \in 1..Len(AllEls)}

VARIABLES
  windowGsap,      \* window.gsap is defined
  windowST,        \* window.ScrollTrigger is defined
  reducedMotion,   \* matchMedia('(prefers-reduced-motion: reduce)').matches
  dom,             \* the elements present in the document
  top,             \* layout: document offset of the top of an element (px)
  viewportHeight,  \* px
  scrollStops,     \* the scroll offsets the user stops at (px)
  tickSteps,       \* the steps in which the clock is seen to advance (ms)
  pageYOffset,     \* window.pageYOffset
  scrollPending,   \* a scroll event is queued and not yet dispatched
  loaderPc,        \* "notStarted" | "polling" | "succeeded" | "fallback"
  attempts,        \* waitForGSAP: attempts
  pollTimer,       \* number of pending setTimeout(checkGSAP, 100)
  pollTimersSet,   \* number of setTimeout(checkGSAP, 100) calls so far
  callbackCalls,   \* number of invocations of the success callback
  fallbackStyles,  \* number of <style> elements appended by initCSS3Fallbacks
  consoleWarn,     \* the console.warn messages of the loader
  st,              \* AnimationController, its closures, the engine and the DOM
  timers,          \* pending timers of the resize / page-load listeners (a list whose
                   \* order carries no meaning: the timers run by their delays)
  sinceResize,     \* ms since the last resize event, counted up to ResizeDelay
  runEvents        \* resize events since the last refresh made by a resize timer,
                   \* counted 0, 1, 2 (two or more)

vars ==
  << windowGsap, windowST, reducedMotion, dom, top, viewportHeight, scrollStops,
     tickSteps, pageYOffset,
     scrollPending, loaderPc, attempts, pollTimer, pollTimersSet,
     callbackCalls, fallbackStyles, consoleWarn, st, timers, sinceResize, runEvents >>

envVars ==
  << windowGsap, windowST, reducedMotion, dom, top, viewportHeight, scrollStops,
     tickSteps >>
scrollVars == << pageYOffset, scrollPending >>
loaderVars ==
  << loaderPc, attempts, pollTimer, pollTimersSet, callbackCalls, fallbackStyles,
     consoleWarn >>
timerVars == << timers, sinceResize, runEvents >>

\* ---- DOM queries ----
\* document.querySelectorAll: the matching elements of the page, in document order
Query(S) == SelectSeq(AllEls, LAMBDA e : e \in S /\ e \in dom)
ElemsOf(q) == {q[i] : i \in 1..Len(q)}

\* ---- the engine ----
Live(t) == t.state \in {"created", "active"}

NewTween(target, kind, props, ow, loop) ==
  [ target |-> target, kind |-> kind, props |-> props,
    state |-> IF ow THEN "created" ELSE "active", ow |-> ow, loop |-> loop ]

\* gsap.to(targets, vars): one animation per target
gsapTo(s, q, kind, props, ow, loop) ==
  [s EXCEPT !.tweens = @ \o [i \in 1..Len(q) |-> NewTween(q[i], kind, props, ow, loop)],
            !.revealStarts = [e \in Elements |->
               IF kind = "reveal" /\ e \in ElemsOf(q) THEN @[e] + 1 ELSE @[e]]]

\* The engine drops a finished or killed tween that the script holds no reference
\* to (hoverTween, buttonTween, iconTween, cardHoverTweens): the references are
\* renumbered to the places the kept tweens move to.
Referenced(s) ==
  {s.hoverTween[c] : c \in Cards} \cup {s.cardHoverTweens[c] : c \in Cards}
    \cup {s.buttonTween, s.iconTween}
Kept(s, i) == Live(s.tweens[i]) \/ i \in Referenced(s)
Moved(s, i) == IF i = 0 THEN 0 ELSE Cardinality({j \in 1..i : Kept(s, j)})
Collect(s) ==
  LET n == Len(s.tweens)
      keep == {i \in 1..n : Kept(s, i)}
      Old(k) == CHOOSE i \in keep : Moved(s, i) = k
  IN  [s EXCEPT !.tweens = [k \in 1..Cardinality(keep) |-> s.tweens[Old(k)]],
                !.hoverTween = [c \in Cards |-> Moved(s, @[c])],
                !.cardHoverTweens = [c \in Cards |-> Moved(s, @[c])],
                !.buttonTween = Moved(s, @),
                !.iconTween = Moved(s, @)]

\* gsap.set(targets, {opacity: 0, ...} or {scaleX: 0}): the targets are hidden
gsapHide(s, q) ==
  [s EXCEPT !.vis = [e \in Elements |-> IF e \in ElemsOf(q) THEN "hidden" ELSE @[e]]]

\* tween.kill()
KillTween(s, id) ==
  IF id = 0 THEN s ELSE [s EXCEPT !.tweens[id].state = "killed"]

\* gsap.killTweensOf("*")
KillTweensOfAll(s) ==
  [s EXCEPT !.tweens =
     [i \in 1..Len(@) |-> IF Live(@[i]) THEN [@[i] EXCEPT !.state = "killed"] ELSE @[i]]]

\* ScrollTrigger.killAll()
KillAllTriggers(s) ==
  [s EXCEPT !.trig = [e \in Elements |-> IF @[e] = "armed" THEN "killed" ELSE @[e]]]

\* ScrollTrigger.create / ScrollTrigger.batch with once:true on each element of q
CreateTriggers(s, q) ==
  [s EXCEPT !.trig = [e \in Elements |-> IF e \in ElemsOf(q) THEN "armed" ELSE @[e]]]

\* start: "top NN%" of the trigger of element e
Pct(e) ==
  CASE e = "textLarge" -> 90
    [] e \in {"mission", "philSection"} -> 80
    [] OTHER -> 85
Start(e) == top[e] - (Pct(e) * viewportHeight) \div 100

\* ---- AnimationController ----
Called(s, name) == [s EXCEPT !.calls = @ \cup {name}]

\* window.pageYOffset || document.documentElement.scrollTop
DocumentScrollTop == pageYOffset
ReadScrollTop == IF pageYOffset # 0 THEN pageYOffset ELSE DocumentScrollTop

initSimpleAnimations(s) ==
  LET elements == Query({"heroTitle", "heroSubtitle", "sectionTitle", "textLarge"} \cup Cards)
      s1 == gsapHide(Called(s, "initSimpleAnimations"), elements)
  IN  gsapTo(s1, elements, "simple", {"opacity", "y"}, FALSE, FALSE)

setInitialStates(s) ==
  LET s1 == gsapHide(Called(s, "setInitialStates"),
                     Query({"heroTitle", "heroSubtitle", "sectionTitle", "textLarge"} \cup Cards))
  IN  gsapHide(s1, Query({"heroDivider", "sectionDivider"}))

animateHero(s) ==
  LET s0 == Called(s, "animateHero") IN
  IF "heroTitle" \notin dom THEN s0
  ELSE
    LET s1 == gsapTo(s0, Query({"heroTitle"}), "hero", {"opacity", "y"}, FALSE, FALSE)
        s2 == gsapTo(s1, Query({"heroSubtitle"}), "hero", {"opacity", "y"}, FALSE, FALSE)
        s3 == gsapTo(s2, Query({"heroDivider"}), "hero", {"scaleX"}, FALSE, FALSE)
        s4 == gsapTo(s3, Query({"heroBtn"}), "hero", {"opacity", "y"}, FALSE, FALSE)
        \* floating elements: fade to 0.15, then an endless yoyo on y
        s5 == gsapTo(s4, Query({"heroFloat"}), "float", {"opacity"}, FALSE, FALSE)
    IN  gsapTo(s5, Query({"heroFloat"}), "float", {"y"}, FALSE, TRUE)

animateSections(s) ==
  LET s0 == Called(s, "animateSections") IN
  IF s0.ScrollTrigger # "set"
  THEN \* fallback without ScrollTrigger
       gsapTo(s0, Query({"sectionTitle", "textLarge"}), "reveal", {"opacity", "y"}, FALSE, FALSE)
  ELSE LET s1 == CreateTriggers(s0, Query({"sectionTitle"}))
           s2 == CreateTriggers(s1, Query({"textLarge"}))
           s3 == CreateTriggers(s2, Query({"sectionDivider"}))
       IN  CreateTriggers(s3, Query({"mission"}))

\* card.addEventListener('mouseenter', ...)
cardMouseEnter(s, c) ==
  LET s1 == KillTween(s, s.hoverTween[c])
      s2 == gsapTo(s1, << c >>, "enter", {"scale", "y"}, TRUE, FALSE)
  IN  [s2 EXCEPT !.hoverTween[c] = Len(s2.tweens), !.cardHoverTweens[c] = Len(s2.tweens)]

\* cardMouseLeave without "if (hoverTween) hoverTween.kill()"
cardMouseLeaveNoKill(s, c) ==
  LET s2 == gsapTo(s, << c >>, "leave", {"scale", "y"}, TRUE, FALSE)
  IN  [s2 EXCEPT !.hoverTween[c] = Len(s2.tweens), !.cardHoverTweens[c] = Len(s2.tweens)]

\* card.addEventListener('mouseleave', ...)
cardMouseLeave(s, c) ==
  LET s1 == KillTween(s, s.hoverTween[c])
      s2 == gsapTo(s1, << c >>, "leave", {"scale", "y"}, TRUE, FALSE)
  IN  [s2 EXCEPT !.hoverTween[c] = Len(s2.tweens), !.cardHoverTweens[c] = Len(s2.tweens)]

animateCards(s) ==
  LET s0 == Called(s, "animateCards")
      s1 == IF s0.ScrollTrigger # "set"
            THEN gsapTo(s0, Query(Cards), "reveal", {"opacity", "y"}, FALSE, FALSE)
            ELSE CreateTriggers(s0, Query(Cards))
  IN  \* hover bindings, each with its own closure variable hoverTween = null
      [s1 EXCEPT !.cardListeners = [c \in Cards |-> IF c \in dom THEN @[c] + 1 ELSE @[c]]]

\* btn.addEventListener('mouseenter', ...)
btnMouseEnter(s) ==
  LET s1 == KillTween(KillTween(s, s.buttonTween), s.iconTween)
      s2 == gsapTo(s1, << "heroBtn" >>, "btn", {"scale"}, TRUE, FALSE)
      s3 == [s2 EXCEPT !.buttonTween = Len(s2.tweens)]
  IN  IF "btnIcon" \in dom
      THEN LET s4 == gsapTo(s3, << "btnIcon" >>, "btn", {"x"}, TRUE, FALSE)
           IN  [s4 EXCEPT !.iconTween = Len(s4.tweens)]
      ELSE s3

\* btn.addEventListener('mouseleave', ...): the same steps towards the rest state
btnMouseLeave(s) == btnMouseEnter(s)

animateButtons(s) ==
  [Called(s, "animateButtons") EXCEPT !.btnListeners = @ + Len(Query({"heroBtn"}))]

animateFloatingElements(s) ==
  gsapTo(Called(s, "animateFloatingElements"), Query({"sectionFloat"}),
         "float", {"x", "y"}, FALSE, TRUE)

\* handleScroll with "scrollTop >= 50"
handleScrollInclusive(s) ==
  LET scrollTop == ReadScrollTop
      shouldBeScrolled == scrollTop >= HeaderThreshold
      s1 == [s EXCEPT !.lastHandledTop = scrollTop,
                      !.classTouched = (shouldBeScrolled # s.isScrolled)]
  IN  IF shouldBeScrolled # s.isScrolled
      THEN [s1 EXCEPT !.isScrolled = shouldBeScrolled, !.headerClass = shouldBeScrolled]
      ELSE s1

handleScroll(s) ==
  LET scrollTop == ReadScrollTop
      shouldBeScrolled == scrollTop > HeaderThreshold
      s1 == [s EXCEPT !.lastHandledTop = scrollTop,
                      !.classTouched = (shouldBeScrolled # s.isScrolled)]
  IN  IF shouldBeScrolled # s.isScrolled
      THEN [s1 EXCEPT !.isScrolled = shouldBeScrolled,
                      !.headerClass = shouldBeScrolled]  \* classList.add / remove
      ELSE s1

initHeaderScrollEffect(s) ==
  LET s0 == Called(s, "initHeaderScrollEffect") IN
  IF "header" \notin dom THEN s0
  ELSE handleScroll([s0 EXCEPT !.isScrolled = FALSE, !.headerListeners = @ + 1])

animatePhilosophySection(s) ==
  LET s0 == Called(s, "animatePhilosophySection")
      line == Query({"philLine"})
      items == Query(PhilItems)
  IN
  IF "philSection" \notin dom THEN s0
  ELSE IF Len(line) = 0 \/ Len(items) = 0 THEN s0
  ELSE
    LET s1 == gsapHide(gsapHide(s0, line), items) IN
    IF s1.ScrollTrigger # "set"
    THEN \* fallback without ScrollTrigger
         gsapTo(gsapTo(s1, line, "reveal", {"opacity", "scaleY"}, FALSE, FALSE),
                items, "reveal", {"opacity", "x", "y"}, FALSE, FALSE)
    ELSE \* line first (trigger: the section), then one trigger per item
         CreateTriggers(CreateTriggers(s1, Query({"philSection"})), items)

initFullAnimations(s) ==
  animatePhilosophySection(
    initHeaderScrollEffect(
      animateFloatingElements(
        animateButtons(
          animateCards(
            animateSections(
              animateHero(
                setInitialStates(Called(s, "initFullAnimations")))))))))

\* init without "if (this.isInitialized) return"
initNoGuard(s) ==
  LET s1 == [s EXCEPT !.gsap = IF windowGsap THEN "set" ELSE "undefined",
                      !.ScrollTrigger = IF windowST THEN "set" ELSE "undefined"]
  IN
  IF s1.gsap # "set"
  THEN [s1 EXCEPT !.threw = TRUE]
  ELSE
    LET s2 == [s1 EXCEPT !.configCalls = @ + 1]
        s3 == IF s2.ScrollTrigger = "set" THEN [s2 EXCEPT !.stConfigCalls = @ + 1] ELSE s2
        s4 == IF reducedMotion THEN initSimpleAnimations(s3) ELSE initFullAnimations(s3)
    IN  [s4 EXCEPT !.isInitialized = TRUE]

\* init that runs the full sequence whatever prefersReducedMotion() says
initIgnoresReducedMotion(s) ==
  IF s.isInitialized THEN Called(s, "init: already initialized")
  ELSE
    LET s1 == [s EXCEPT !.gsap = IF windowGsap THEN "set" ELSE "undefined",
                        !.ScrollTrigger = IF windowST THEN "set" ELSE "undefined"]
    IN
    IF s1.gsap # "set"
    THEN [s1 EXCEPT !.threw = TRUE]
    ELSE
      LET s2 == [s1 EXCEPT !.configCalls = @ + 1]
          s3 == IF s2.ScrollTrigger = "set" THEN [s2 EXCEPT !.stConfigCalls = @ + 1] ELSE s2
      IN  [initFullAnimations(s3) EXCEPT !.isInitialized = TRUE]

init(s) ==
  IF s.isInitialized THEN Called(s, "init: already initialized")    \* return
  ELSE
    LET s1 == [s EXCEPT !.gsap = IF windowGsap THEN "set" ELSE "undefined",
                        !.ScrollTrigger = IF windowST THEN "set" ELSE "undefined"]
    IN
    IF s1.gsap # "set"
    THEN [s1 EXCEPT !.threw = TRUE]             \* this.gsap.config: TypeError
    ELSE
      LET s2 == [s1 EXCEPT !.configCalls = @ + 1]
          s3 == IF s2.ScrollTrigger = "set" THEN [s2 EXCEPT !.stConfigCalls = @ + 1] ELSE s2
          s4 == IF reducedMotion THEN initSimpleAnimations(s3) ELSE initFullAnimations(s3)
      IN  [s4 EXCEPT !.isInitialized = TRUE]

initSmoothScrolling(s) ==
  [Called(s, "initSmoothScrolling") EXCEPT !.anchorListeners = @ + Len(Query({"anchor"}))]

refresh(s) ==
  IF s.ScrollTrigger = "set" THEN Called(s, "ScrollTrigger.refresh") ELSE s

\* cleanup without "this.cardHoverTweens.clear()"
cleanupNoClear(s) ==
  LET RECURSIVE KillIn(_, _)
      KillIn(x, C) ==
        IF C = {} THEN x
        ELSE LET c == CHOOSE c \in C : TRUE
             IN  KillIn(KillTween(x, x.cardHoverTweens[c]), C \ {c})
      s1 == KillIn(s, Cards)
      s3 == IF s1.ScrollTrigger = "set" THEN KillAllTriggers(s1) ELSE s1
  IN  IF s3.gsap = "set" THEN KillTweensOfAll(s3) ELSE s3

cleanup(s) ==
  LET RECURSIVE KillIn(_, _)
      KillIn(x, C) ==
        IF C = {} THEN x
        ELSE LET c == CHOOSE c \in C : TRUE
             IN  KillIn(KillTween(x, x.cardHoverTweens[c]), C \ {c})
      s1 == KillIn(s, Cards)                             \* forEach: if (tween) tween.kill()
      s2 == [s1 EXCEPT !.cardHoverTweens = [c \in Cards |-> 0]]   \* clear()
      s3 == IF s2.ScrollTrigger = "set" THEN KillAllTriggers(s2) ELSE s2
  IN  IF s3.gsap = "set" THEN KillTweensOfAll(s3) ELSE s3

\* ---- the loader ----
\* the success callback passed by initialize()
Callback(s) ==
  LET s1 == init([s EXCEPT !.threw = FALSE])
  IN  IF s1.threw THEN s1 ELSE initSmoothScrolling(s1)

\* checkGSAP with "attempts <= maxAttempts"
checkGSAPOffByOne(l, registerThrows) ==
  LET l1 == [l EXCEPT !.attempts = @ + 1] IN
  IF windowGsap /\ windowST
  THEN [l1 EXCEPT !.pc = "succeeded", !.callbackCalls = @ + 1, !.s = Callback(l.s),
                  !.warn = IF registerThrows THEN @ \cup {"Plugin registration failed"} ELSE @]
  ELSE IF l1.attempts <= maxAttempts
  THEN [l1 EXCEPT !.pc = "polling", !.pollTimer = @ + 1, !.pollTimersSet = @ + 1]
  ELSE [l1 EXCEPT !.pc = "fallback", !.fallbackStyles = @ + 1,
                  !.warn = @ \cup {"GSAP failed to load"}]

\* checkGSAP whose catch block only warns
checkGSAPSilentCatch(l, registerThrows) ==
  LET l1 == [l EXCEPT !.attempts = @ + 1] IN
  IF windowGsap /\ windowST
  THEN IF registerThrows
       THEN [l1 EXCEPT !.pc = "succeeded", !.warn = @ \cup {"Plugin registration failed"}]
       ELSE [l1 EXCEPT !.pc = "succeeded", !.callbackCalls = @ + 1, !.s = Callback(l.s)]
  ELSE IF l1.attempts < maxAttempts
  THEN [l1 EXCEPT !.pc = "polling", !.pollTimer = @ + 1, !.pollTimersSet = @ + 1]
  ELSE [l1 EXCEPT !.pc = "fallback", !.fallbackStyles = @ + 1,
                  !.warn = @ \cup {"GSAP failed to load"}]

\* checkGSAP on the loader record l; registerThrows: gsap.registerPlugin throws
checkGSAP(l, registerThrows) ==
  LET l1 == [l EXCEPT !.attempts = @ + 1] IN
  IF windowGsap /\ windowST
  THEN IF registerThrows
       THEN \* catch: warn, callback()
            [l1 EXCEPT !.pc = "succeeded", !.callbackCalls = @ + 1, !.s = Callback(l.s),
                       !.warn = @ \cup {"Plugin registration failed"}]
       ELSE LET c1 == Callback(l.s) IN
            IF c1.threw
            THEN \* the callback threw inside try: catch runs it again
                 [l1 EXCEPT !.pc = "succeeded", !.callbackCalls = @ + 2, !.s = Callback(c1),
                            !.warn = @ \cup {"Plugin registration failed"}]
            ELSE [l1 EXCEPT !.pc = "succeeded", !.callbackCalls = @ + 1, !.s = c1]
  ELSE IF l1.attempts < maxAttempts
  THEN [l1 EXCEPT !.pc = "polling", !.pollTimer = @ + 1, !.pollTimersSet = @ + 1]
  ELSE \* warn, initCSS3Fallbacks()
       [l1 EXCEPT !.pc = "fallback", !.fallbackStyles = @ + 1,
                  !.warn = @ \cup {"GSAP failed to load"}]

Loader ==
  [ pc |-> loaderPc, attempts |-> attempts, pollTimer |-> pollTimer,
    pollTimersSet |-> pollTimersSet, callbackCalls |-> callbackCalls,
    fallbackStyles |-> fallbackStyles, warn |-> consoleWarn, s |-> st ]

SetLoader(l) ==
  /\ loaderPc' = l.pc
  /\ attempts' = l.attempts
  /\ pollTimer' = l.pollTimer
  /\ pollTimersSet' = l.pollTimersSet
  /\ callbackCalls' = l.callbackCalls
  /\ fallbackStyles' = l.fallbackStyles
  /\ consoleWarn' = l.warn
  /\ st' = l.s

\* ---- initial states ----
ScriptState0 ==
  [ gsap |-> "null", ScrollTrigger |-> "null", isInitialized |-> FALSE,
    cardHoverTweens |-> [c \in Cards |-> 0], hoverTween |-> [c \in Cards |-> 0],
    buttonTween |-> 0, iconTween |-> 0, tweens |-> << >>,
    vis |-> [e \in Elements |-> "initial"], trig |-> [e \in Elements |-> "none"],
    cardListeners |-> [c \in Cards |-> 0], btnListeners |-> 0, headerListeners |-> 0,
    anchorListeners |-> 0, isScrolled |-> FALSE, headerClass |-> FALSE,
    classTouched |-> FALSE, lastHandledTop |-> -1, calls |-> {},
    revealStarts |-> [e \in Elements |-> 0],
    configCalls |-> 0, stConfigCalls |-> 0, threw |-> FALSE ]

\* a layout of the page, for a 1000 px viewport
Layout0 ==
  [e \in Elements |->
     CASE e = "sectionTitle" -> 800
       [] e = "cardA" -> 900
       [] e \in {"textLarge", "sectionDivider", "cardB"} -> 1025
       [] e = "mission" -> 975
       [] e \in {"philSection", "philLine"} -> 1000
       [] e \in PhilItems -> 1060
       [] OTHER -> 0]

InitWith(page, gs, ts, stops, offsets, layouts, steps) ==
  /\ windowGsap \in gs
  /\ windowST \in ts
  /\ reducedMotion \in BOOLEAN
  /\ dom = page
  /\ top \in layouts
  /\ viewportHeight = 1000
  /\ scrollStops = stops
  /\ tickSteps = steps
  /\ pageYOffset \in offsets
  /\ scrollPending = FALSE
  /\ loaderPc = "notStarted"
  /\ attempts = 0
  /\ pollTimer = 0
  /\ pollTimersSet = 0
  /\ callbackCalls = 0
  /\ fallbackStyles = 0
  /\ consoleWarn = {}
  /\ st = ScriptState0
  /\ timers = << >>
  /\ sinceResize = ResizeDelay
  /\ runEvents = 0

\* ---- actions: scripts, loader, init ----
LoadGsapScript ==
  /\ ~windowGsap
  /\ windowGsap' = TRUE
  /\ UNCHANGED << windowST, reducedMotion, dom, top, viewportHeight, scrollStops,
                  tickSteps, scrollVars,
                  loaderVars, st, timerVars >>

LoadScrollTriggerScript ==
  /\ ~windowST
  /\ windowST' = TRUE
  /\ UNCHANGED << windowGsap, reducedMotion, dom, top, viewportHeight, scrollStops,
                  tickSteps, scrollVars,
                  loaderVars, st, timerVars >>

\* initialize(): at DOMContentLoaded, or at once when the document is loaded
StartInitialize ==
  /\ loaderPc = "notStarted"
  /\ \E registerThrows \in BOOLEAN : SetLoader(checkGSAP(Loader, registerThrows))
  /\ UNCHANGED << envVars, scrollVars, timerVars >>

\* a setTimeout(checkGSAP, 100) runs
PollTimerFires ==
  /\ pollTimer > 0
  /\ \E registerThrows \in BOOLEAN :
       SetLoader(checkGSAP([Loader EXCEPT !.pollTimer = @ - 1], registerThrows))
  /\ UNCHANGED << envVars, scrollVars, timerVars >>

\* window.AnimationController.init() through the exposed controller
ExternalInit ==
  /\ st' = init([st EXCEPT !.threw = FALSE])
  /\ UNCHANGED << envVars, scrollVars, loaderVars, timerVars >>

\* ---- actions: hover ----
HoverKinds == {"enter", "leave", "btn"}

MouseEnter(c) ==
  /\ st.cardListeners[c] > 0
  /\ st' = Collect(cardMouseEnter(st, c))
  /\ UNCHANGED << envVars, scrollVars, loaderVars, timerVars >>

MouseLeave(c) ==
  /\ st.cardListeners[c] > 0
  /\ st' = Collect(cardMouseLeave(st, c))
  /\ UNCHANGED << envVars, scrollVars, loaderVars, timerVars >>

BtnEnter ==
  /\ st.btnListeners > 0
  /\ st' = Collect(btnMouseEnter(st))
  /\ UNCHANGED << envVars, scrollVars, loaderVars, timerVars >>

BtnLeave ==
  /\ st.btnListeners > 0
  /\ st' = Collect(btnMouseLeave(st))
  /\ UNCHANGED << envVars, scrollVars, loaderVars, timerVars >>

\* ---- actions: the engine's ticker ----
\* first render of tween i, created with overwrite:"auto"
FirstRender(s, i) ==
  LET tw == s.tweens
      t == tw[i]
      Strip(u) ==
        IF Live(u) /\ u.target = t.target /\ u.props \cap t.props # {}
        THEN [u EXCEPT !.props = u.props \ t.props,
                       !.state = IF u.props \subseteq t.props THEN "killed" ELSE u.state]
        ELSE u
  IN  [s EXCEPT !.tweens =
         [j \in 1..Len(tw) |-> IF j = i THEN [t EXCEPT !.state = "active"] ELSE Strip(tw[j])]]

\* the property whose end value makes a hidden element visible
RevealProp(e) == IF e \in {"heroDivider", "sectionDivider"} THEN "scaleX" ELSE "opacity"

\* tween i reaches its end
Finish(s, i) ==
  LET t == s.tweens[i] IN
  [s EXCEPT !.tweens[i].state = "completed",
            !.vis[t.target] =
               IF @ = "hidden" /\ RevealProp(t.target) \in t.props THEN "visible" ELSE @]

RenderTween ==
  \E i \in 1..Len(st.tweens) :
    /\ st.tweens[i].state = "created"
    /\ st' = Collect(FirstRender(st, i))
    /\ UNCHANGED << envVars, scrollVars, loaderVars, timerVars >>

CompleteTween ==
  \E i \in 1..Len(st.tweens) :
    /\ st.tweens[i].state = "active"
    /\ ~st.tweens[i].loop
    /\ st' = Collect(Finish(st, i))
    /\ UNCHANGED << envVars, scrollVars, loaderVars, timerVars >>

\* ---- actions: scrolling ----
Scroll ==
  \E y \in scrollStops :
    /\ y # pageYOffset
    /\ pageYOffset' = y
    /\ scrollPending' = TRUE
    /\ UNCHANGED << envVars, loaderVars, st, timerVars >>

\* the scroll event reaches window's listeners
ScrollEvent ==
  /\ scrollPending
  /\ scrollPending' = FALSE
  /\ st' = IF st.headerListeners > 0 THEN handleScroll(st) ELSE st
  /\ UNCHANGED << envVars, pageYOffset, loaderVars, timerVars >>

\* creation order of the scroll triggers of the full sequence
TriggerOrder ==
  << "sectionTitle", "textLarge", "sectionDivider", "mission", "cardA", "cardB",
     "philSection", "philItem0", "philItem1" >>

RevealTarget(e) == IF e = "philSection" THEN "philLine" ELSE e
RevealProps(e) ==
  CASE e = "sectionDivider" -> {"scaleX"}
    [] e = "mission" -> {"opacity", "y", "scale"}
    [] e = "philSection" -> {"opacity", "scaleY"}
    [] e \in PhilItems -> {"opacity", "x", "y"}
    [] OTHER -> {"opacity", "y"}

\* onEnter of the trigger of element e (once: true)
onEnter(s, e) ==
  [gsapTo(s, << RevealTarget(e) >>, "reveal", RevealProps(e), FALSE, FALSE)
     EXCEPT !.trig[e] = "fired"]

Entered(s, e) == s.trig[e] = "armed" /\ Start(e) <= pageYOffset

RECURSIVE UpdateFrom(_, _)
UpdateFrom(s, i) ==
  IF i > Len(TriggerOrder) THEN s
  ELSE UpdateFrom(IF Entered(s, TriggerOrder[i]) THEN onEnter(s, TriggerOrder[i]) ELSE s, i + 1)

\* ScrollTrigger's update: every armed trigger whose start has been reached fires
ScrollTriggerUpdate ==
  /\ \E e \in Elements : Entered(st, e)
  /\ st' = UpdateFrom(st, 1)
  /\ UNCHANGED << envVars, scrollVars, loaderVars, timerVars >>

\* ---- actions: resize, page navigation, unload ----
\* A pending timer: its listener, the delay that is left, and whether the variable
\* resizeTimeout holds its id.
NewTimer(kind, delay, ref) == [kind |-> kind, remaining |-> delay, ref |-> ref]

\* the resize listener without "clearTimeout(resizeTimeout)"
resizeListenerNoClear(T) ==
  << NewTimer("resize", ResizeDelay, TRUE) >> \o [i \in 1..Len(T) |-> [T[i] EXCEPT !.ref = FALSE]]

\* the resize listener on the pending timers T
resizeListener(T) ==
  LET cleared == SelectSeq(T, LAMBDA x : ~x.ref)          \* clearTimeout(resizeTimeout)
  IN  << NewTimer("resize", ResizeDelay, TRUE) >> \o cleared

Min(a, b) == IF a < b THEN a ELSE b
Max(a, b) == IF a > b THEN a ELSE b

ResizePending == {i \in 1..Len(timers) : timers[i].kind = "resize"}
PageLoadPending == {i \in 1..Len(timers) : timers[i].kind = "pageload"}

Resize ==
  /\ timers' = resizeListener(timers)
  /\ sinceResize' = 0
  /\ runEvents' = Min(2, runEvents + 1)
  /\ UNCHANGED << envVars, scrollVars, loaderVars, st >>

\* document 'astro:page-load'
PageLoad ==
  /\ Cardinality(PageLoadPending) < MaxPageLoadTimers
  /\ timers' = Append(timers, NewTimer("pageload", PageLoadDelay, FALSE))
  /\ UNCHANGED << envVars, scrollVars, loaderVars, st, sinceResize, runEvents >>

\* a timer whose delay has passed runs: AnimationController.refresh()
TimerFires ==
  \E i \in 1..Len(timers) :
    /\ timers[i].remaining = 0
    /\ timers' = [k \in 1..(Len(timers) - 1) |-> IF k < i THEN timers[k] ELSE timers[k + 1]]
    /\ st' = refresh(st)
    /\ runEvents' = IF timers[i].kind = "resize" THEN 0 ELSE runEvents
    /\ UNCHANGED << envVars, scrollVars, loaderVars, sinceResize >>

\* time passes; a timer may run late, never early
Tick ==
  \E d \in tickSteps :
    /\ sinceResize < ResizeDelay \/ \E i \in 1..Len(timers) : timers[i].remaining > 0
    /\ timers' = [k \in 1..Len(timers) |->
                    [timers[k] EXCEPT !.remaining = Max(0, @ - d)]]
    /\ sinceResize' = Min(ResizeDelay, sinceResize + d)
    /\ UNCHANGED << envVars, scrollVars, loaderVars, st, runEvents >>

\* window 'beforeunload'
BeforeUnload ==
  /\ st' = Collect(cleanup([st EXCEPT !.threw = FALSE]))
  /\ UNCHANGED << envVars, scrollVars, loaderVars, timerVars >>

\* ---- specifications ----
\* Spec: the whole life cycle on a page with a header and a card; both scripts
\* are loaded before this one runs.
PageMain == {"header", "cardA"}
Init == InitWith(PageMain, {TRUE}, {TRUE}, {0, 51}, {0}, {Layout0}, {250})
Next ==
  \/ StartInitialize
  \/ ExternalInit
  \/ \E c \in Cards : MouseEnter(c)
  \/ \E c \in Cards : MouseLeave(c)
  \/ RenderTween
  \/ CompleteTween
  \/ Scroll
  \/ ScrollEvent
  \/ ScrollTriggerUpdate
  \/ Resize
  \/ PageLoad
  \/ TimerFires
  \/ Tick
  \/ BeforeUnload
Spec == Init /\ [][Next]_vars

\* SpecLoader: the loader while the two scripts arrive, or never do.
InitLoader == InitWith(PageMain, {FALSE}, {FALSE}, {0}, {0}, {Layout0}, {250})
NextLoader ==
  \/ LoadGsapScript
  \/ LoadScrollTriggerScript
  \/ StartInitialize
  \/ PollTimerFires
SpecLoader == InitLoader /\ [][NextLoader]_vars

\* SpecHover: pointer, scroll-reveal and unload events on a page of two cards,
\* with and without the scroll-trigger extension.
PageHover == {"cardA", "cardB"}
InitHover == InitWith(PageHover, {TRUE}, BOOLEAN, {0, 175}, {0}, {Layout0}, {250})
NextHover ==
  \/ StartInitialize
  \/ ExternalInit
  \/ \E c \in Cards : MouseEnter(c)
  \/ \E c \in Cards : MouseLeave(c)
  \/ RenderTween
  \/ CompleteTween
  \/ Scroll
  \/ ScrollEvent
  \/ ScrollTriggerUpdate
  \/ BeforeUnload
SpecHover == InitHover /\ [][NextHover]_vars

\* SpecHeader: scrolling and the pointer on a page with a header and a hero
\* button, loaded at any scroll offset.
PageHeader == {"header", "anchor", "heroTitle", "heroBtn", "btnIcon"}
HeaderStops == {0, 25, 50, 51, 75, 175}
InitHeader == InitWith(PageHeader, {TRUE}, {TRUE}, HeaderStops, HeaderStops, {Layout0}, {250})
NextHeader ==
  \/ StartInitialize
  \/ Scroll
  \/ ScrollEvent
  \/ BtnEnter
  \/ BtnLeave
  \/ RenderTween
  \/ CompleteTween
  \/ BeforeUnload
SpecHeader == InitHeader /\ [][NextHeader]_vars

\* SpecResize: resize and page-navigation events and their timers.
InitResize == InitWith(PageMain, {TRUE}, {TRUE}, {0}, {0}, {Layout0}, {50, 100})
NextResize ==
  \/ StartInitialize
  \/ Resize
  \/ PageLoad
  \/ TimerFires
  \/ Tick
SpecResize == InitResize /\ [][NextResize]_vars

\* SpecDegraded: the engine is loaded and the scroll-trigger extension is not;
\* init is called through the exposed controller.
PageSections ==
  {"heroTitle", "heroDivider", "sectionTitle", "textLarge", "sectionDivider",
   "mission", "cardA", "philSection", "philLine", "philItem0", "philItem1"}
InitDegraded == InitWith(PageSections, {TRUE}, {FALSE}, {0, 175}, {0}, {Layout0}, {250})
NextDegraded ==
  \/ ExternalInit
  \/ CompleteTween
  \/ Scroll
  \/ ScrollEvent
SpecDegraded == InitDegraded /\ [][NextDegraded]_vars

\* SpecPhilosophy: scrolling over a philosophy section whose items start at the
\* top of the section or lower.
PagePhilosophy == {"philSection", "philLine", "philItem0", "philItem1"}
PhilLayouts ==
  {[Layout0 EXCEPT !["philItem0"] = a, !["philItem1"] = b] :
     a \in {1000, 1060}, b \in {1060, 1300}}
InitPhilosophy ==
  InitWith(PagePhilosophy, {TRUE}, {TRUE}, {0, 175, 250, 500}, {0}, PhilLayouts, {250})
NextPhilosophy ==
  \/ StartInitialize
  \/ Scroll
  \/ ScrollEvent
  \/ ScrollTriggerUpdate
  \/ CompleteTween
  \/ BeforeUnload
SpecPhilosophy == InitPhilosophy /\ [][NextPhilosophy]_vars

\* ---- the claims ----
LiveOn(c) == {i \in 1..Len(st.tweens) : st.tweens[i].target = c /\ Live(st.tweens[i])}
LiveHoverOn(c) == {i \in LiveOn(c) : st.tweens[i].kind \in {"enter", "leave"}}
LiveRevealOn(c) == {i \in LiveOn(c) : st.tweens[i].kind = "reveal"}
Armed(s) == {e \in Elements : s.trig[e] = "armed"}
SetupTweens(s) ==
  Cardinality({i \in 1..Len(s.tweens) : s.tweens[i].kind \in {"hero", "simple", "float"}})
FullFns ==
  {"initFullAnimations", "setInitialStates", "animateHero", "animateSections",
   "animateCards", "animateButtons", "animateFloatingElements",
   "initHeaderScrollEffect", "animatePhilosophySection"}
InitFns == FullFns \cup {"initSimpleAnimations"}

\* C1: when no poll finds the engine and the scroll-trigger extension both present,
\* the loader makes exactly 50 checks (49 of them from a 100 ms timer), appends
\* exactly one fallback <style> after the 50th, leaves no timer pending and never
\* invokes the success callback, so init and initSmoothScrolling never run; while
\* it is still polling, exactly one timer is pending and nothing has been appended.
C1_FallbackAfterFiftyChecks ==
  /\ fallbackStyles <= 1
  /\ (loaderPc = "fallback") <=> (fallbackStyles = 1)
  /\ loaderPc = "fallback" =>
       /\ attempts = 50
       /\ pollTimersSet = 49
       /\ pollTimer = 0
       /\ callbackCalls = 0
       /\ ~st.isInitialized
       /\ st.calls = {}
       /\ "GSAP failed to load" \in consoleWarn
  /\ loaderPc = "polling" =>
       /\ pollTimer = 1
       /\ attempts < 50
       /\ pollTimersSet = attempts
       /\ callbackCalls = 0

\* the loader has fallen back although the engine itself arrived
C1_Witness == loaderPc = "fallback" /\ windowGsap /\ ~windowST

\* C8: the first poll that finds the engine and the extension both present invokes
\* the success callback exactly once, also when plugin registration throws; after
\* it no poll is pending, no fallback style is appended and the callback is not
\* invoked again.
C8_SuccessCallbackOnce ==
  /\ [](callbackCalls <= 1)
  /\ []((loaderPc = "succeeded") <=> (callbackCalls = 1))
  /\ [](loaderPc = "succeeded" =>
          /\ pollTimer = 0
          /\ fallbackStyles = 0
          /\ st.isInitialized
          /\ "initSmoothScrolling" \in st.calls)
  /\ [][(attempts' # attempts /\ windowGsap /\ windowST) =>
          (loaderPc' = "succeeded" /\ callbackCalls' = 1)]_vars

\* success at a later poll, with plugin registration throwing
C8_Witness ==
  /\ loaderPc = "succeeded"
  /\ "Plugin registration failed" \in consoleWarn
  /\ callbackCalls = 1
  /\ attempts > 1

\* C2 (as amended): at most one hover tween is live on a card at any instant, and
\* it is the one the handlers' hoverTween refers to; a scroll-reveal tween may be
\* live on the card at the same time, so at most two animations are.
C2_OneLiveHoverTween ==
  \A c \in Cards :
    /\ Cardinality(LiveHoverOn(c)) <= 1
    /\ LiveHoverOn(c) \subseteq {st.hoverTween[c]}
    /\ Cardinality(LiveRevealOn(c)) <= 1
    /\ Cardinality(LiveOn(c)) <= 2

\* C2 as stated: at most one live animation of any kind on a card
C2_OneAnimationPerCard == \A c \in Cards : Cardinality(LiveOn(c)) <= 1

\* a leave tween has replaced the card's enter tween while the reveal tween runs
C2_Witness ==
  \E c \in Cards :
    /\ LiveRevealOn(c) # {}
    /\ \E i \in LiveHoverOn(c) : st.tweens[i].kind = "leave" /\ st.tweens[i].state = "active"

\* C3: whenever the header's scroll listener is registered and no scroll event is
\* waiting, the header has the class 'scrolled' iff the offset is above 50 px; a
\* scroll event whose offset is on the same side of 50 px as the one handled
\* before it makes no classList call.
C3_HeaderScrolledClass ==
  /\ []((st.headerListeners > 0 /\ ~scrollPending) =>
          (st.headerClass <=> (pageYOffset > 50)))
  /\ [][(/\ scrollPending
         /\ ~scrollPending'
         /\ st.headerListeners > 0
         /\ (st.lastHandledTop > 50) <=> (pageYOffset > 50))
        => (~st'.classTouched /\ st'.headerClass = st.headerClass)]_vars

\* a scroll event at 175 px was handled after one above 50 px: no classList call
C3_Witness ==
  /\ st.headerClass
  /\ ~st.classTouched
  /\ ~scrollPending
  /\ st.lastHandledTop = 175

\* C4: in every state, cleanup() raises no error, kills every tween stored in
\* cardHoverTweens, empties the map, kills every scroll trigger when
\* this.ScrollTrigger is set and every live tween when this.gsap is set, and a
\* second cleanup() right after it changes nothing.
C4_CleanupKillsAndClears ==
  LET s == [st EXCEPT !.threw = FALSE]
      r == cleanup(s)
  IN  /\ ~r.threw
      /\ \A c \in Cards :
           s.cardHoverTweens[c] # 0 => r.tweens[s.cardHoverTweens[c]].state = "killed"
      /\ \A c \in Cards : r.cardHoverTweens[c] = 0
      /\ r.ScrollTrigger = "set" => Armed(r) = {}
      /\ r.gsap = "set" => \A i \in 1..Len(r.tweens) : ~Live(r.tweens[i])
      /\ cleanup(r) = r

\* after an unload: a card's hover tween killed and no longer in the map, and a
\* scroll trigger killed
C4_Witness ==
  /\ \E c \in Cards :
       /\ st.hoverTween[c] # 0
       /\ st.tweens[st.hoverTween[c]].state = "killed"
       /\ st.cardHoverTweens[c] = 0
  /\ \E e \in Elements : st.trig[e] = "killed"

\* C5: isInitialized starts false, turns true only in a step that configures the
\* engine and runs one of the two animation batches, and is never reset; once it
\* is true, no step (an init() call included) configures the engine, runs a
\* function of either batch, registers a listener, arms a scroll trigger or
\* starts a batch tween.
C5_InitOnce ==
  /\ ~st.isInitialized
  /\ [][st.isInitialized => st'.isInitialized]_vars
  /\ [][(~st.isInitialized /\ st'.isInitialized) =>
          /\ st'.configCalls = st.configCalls + 1
          /\ st'.calls \cap {"initSimpleAnimations", "initFullAnimations"} # {}]_vars
  /\ [][st.isInitialized =>
          /\ st'.configCalls = st.configCalls
          /\ st'.stConfigCalls = st.stConfigCalls
          /\ st'.gsap = st.gsap
          /\ st'.ScrollTrigger = st.ScrollTrigger
          /\ st'.calls \cap InitFns = st.calls \cap InitFns
          /\ st'.cardListeners = st.cardListeners
          /\ st'.btnListeners = st.btnListeners
          /\ st'.headerListeners = st.headerListeners
          /\ Armed(st') \subseteq Armed(st)
          /\ SetupTweens(st') <= SetupTweens(st)]_vars

\* init() has been called on the initialized controller
C5_Witness ==
  /\ st.isInitialized
  /\ "init: already initialized" \in st.calls
  /\ st.configCalls = 1

\* C6: with reduced motion, an initialized controller has run
\* initSimpleAnimations and none of the functions of the full sequence, and no
\* scroll trigger, hover listener or header scroll listener exists.
C6_ReducedMotionSimpleOnly ==
  (reducedMotion /\ st.isInitialized) =>
    /\ "initSimpleAnimations" \in st.calls
    /\ st.calls \cap FullFns = {}
    /\ \A e \in Elements : st.trig[e] = "none"
    /\ \A c \in Cards : st.cardListeners[c] = 0
    /\ st.btnListeners = 0
    /\ st.headerListeners = 0

\* reduced motion: the card has faded in, the page is scrolled past 50 px and the
\* header is left alone
C6_Witness ==
  /\ reducedMotion
  /\ st.isInitialized
  /\ st.vis["cardA"] = "visible"
  /\ pageYOffset = 51
  /\ ~scrollPending
  /\ ~st.headerClass

\* C7 (as amended): at most one refresh timer of the resize listener is pending,
\* the one resizeTimeout refers to; one is pending exactly while resize events
\* wait for their refresh, so the events that arrive while it is pending end in
\* one refresh() call; and it cannot run before 250 ms have passed since the
\* last resize event.
C7_DebouncedRefresh ==
  /\ Cardinality(ResizePending) <= 1
  /\ (runEvents > 0) <=> (ResizePending # {})
  /\ \A i \in ResizePending :
       /\ timers[i].ref
       /\ timers[i].remaining + sinceResize >= 250

\* C7 as stated: a resize event 250 ms or more after the previous one starts a new
\* run, so the refresh of the previous run has been called by then
C7_RefreshExactlyAfterDelay ==
  [][(sinceResize >= 250 /\ sinceResize' = 0) => ResizePending = {}]_vars

\* several resize events wait for the one timer, which is due, after an earlier
\* refresh
C7_Witness ==
  /\ runEvents = 2
  /\ Cardinality(ResizePending) = 1
  /\ \A i \in ResizePending : timers[i].remaining = 0
  /\ "ScrollTrigger.refresh" \in st.calls

\* C9 as stated: after the full sequence has run without the scroll-trigger
\* extension, no scroll trigger exists and every hidden element has a live tween
\* that takes it to its visible end state.
C9_EveryHiddenElementIsRevealed ==
  (st.isInitialized /\ "initFullAnimations" \in st.calls /\ st.ScrollTrigger # "set") =>
    /\ \A e \in Elements : st.trig[e] = "none"
    /\ \A e \in dom :
         st.vis[e] = "hidden" =>
           \E i \in 1..Len(st.tweens) :
             /\ st.tweens[i].target = e
             /\ Live(st.tweens[i])
             /\ RevealProp(e) \in st.tweens[i].props

\* C10 as stated: no philosophy item's reveal tween is started before the line's,
\* and each is started at most once.
C10_LineBeforeItems ==
  /\ \A it \in PhilItems :
       st.revealStarts[it] > 0 => st.revealStarts["philLine"] > 0
  /\ \A e \in PhilItems \cup {"philLine"} : st.revealStarts[e] <= 1

====
